---- MODULE Spec2Model ----
(***************************************************************************)
(* gov-watcher: a periodic scraper that diffs the links of listing pages   *)
(* against persisted state, prepends new items to a markdown archive and   *)
(* posts one notification per new item (src/gov-watcher/watcher.py), and   *)
(* its predecessor dop-watcher (src/old_repo/dop-watcher/dop_watch.py).    *)
(***************************************************************************)
EXTENDS Integers, Sequences, FiniteSets, TLC

(***************************************************************************)
(* Bounds of the model.                                                    *)
(***************************************************************************)
\* runs of run_watcher started in one behaviour
MaxRuns == 2
\* runs of one behaviour during which the environment misbehaves (a site down, a
\* page the parser rejects, a file that cannot be read or written, ntfy.sh failing),
\* and corruptions of state.json between runs
MaxDisturbed == 1
\* whole lines a write that fails has written before it fails
MaxWritten == 6

(***************************************************************************)
(* Program constants.                                                      *)
(***************************************************************************)
\* watcher.py:217,219  the seen_urls cap
SeenCap == 1000

(***************************************************************************)
(* Python values.                                                          *)
(*   A dict is the sequence of its items [k, v] in insertion order, with   *)
(*   pairwise different keys.  A key of the state dict is a str or an int  *)
(*   (a site id as config.json gives it): [t |-> "str" | "int", s |-> the  *)
(*   text of the value].  A URL is [host, doc, ext], ext the characters    *)
(*   after its last dot; an href is the same record with host "" when it   *)
(*   is relative.  A title is the list of the pieces of its string: every  *)
(*   bracket and every space is a piece of its own, the text between them  *)
(*   one piece.                                                            *)
(***************************************************************************)
StrKey(s) == [t |-> "str", s |-> s]
IntKey(s) == [t |-> "int", s |-> s]

EmptyDict == << >>

\* None, where a URL is expected (dict.get without default)
None == [host |-> "None", doc |-> 0, ext |-> << >>]

DictHas(d, k) == \E n \in 1..Len(d) : d[n].k = k

\* d.get(k, default)
DictGet(d, k, default) ==
  IF DictHas(d, k) THEN d[CHOOSE n \in 1..Len(d) : d[n].k = k].v ELSE default

\* d[k] = v : an existing key keeps its place, a new key goes last
DictSet(d, k, v) ==
  IF DictHas(d, k)
  THEN [n \in 1..Len(d) |-> IF d[n].k = k THEN [k |-> k, v |-> v] ELSE d[n]]
  ELSE Append(d, [k |-> k, v |-> v])

\* d1 == d2 for two dicts: the same keys with the same values, in any order
DictEq(d1, d2) ==
  /\ \A n \in 1..Len(d1) : DictHas(d2, d1[n].k) /\ DictGet(d2, d1[n].k, None) = d1[n].v
  /\ \A n \in 1..Len(d2) : DictHas(d1, d2[n].k)

\* site.get(f) is truthy
Truthy(site, f) ==
  /\ f \in DOMAIN site
  /\ IF f = "id" THEN site[f].s # "" /\ ~(site[f].t = "int" /\ site[f].s = "0")
     ELSE site[f] # ""

\* site.get(f, default)
Get(site, f, default) == IF f \in DOMAIN site THEN site[f] ELSE default

(***************************************************************************)
(* for x in items[lo..hi]: acc = Body(acc, x).  The range is split in two  *)
(* halves run one after the other, the first evaluated before the second   *)
(* starts, so that a page of a thousand links is walked in order without   *)
(* a thousand nested evaluations.  A Body that has set acc.stop (a break)  *)
(* is not called again.                                                    *)
(***************************************************************************)
RECURSIVE ForEach(_, _, _, _, _)
ForEach(Body(_, _), items, lo, hi, acc) ==
  IF lo > hi \/ acc.stop THEN acc
  ELSE IF lo = hi THEN Body(acc, items[lo])
  ELSE LET mid  == (lo + hi) \div 2
           left == ForEach(Body, items, lo, mid, acc)
       IN  IF left.stop THEN left ELSE ForEach(Body, items, mid + 1, hi, left)

Reverse(s) == [n \in 1..Len(s) |-> s[Len(s) + 1 - n]]

Range(s) == {s[n] : n \in 1..Len(s)}

\* the links of a list of items
LinksOf(items) == [n \in 1..Len(items) |-> items[n].link]

\* r[f] = v on a dict with str keys held as a record
SetField(r, f, v) == [x \in DOMAIN r \cup {f} |-> IF x = f THEN v ELSE r[x]]

(***************************************************************************)
(* JSON.  json.dump writes the items of a dict in order, every key as a    *)
(* JSON string (an int key becomes its decimal text); json.loads builds    *)
(* the dict member by member, so a name met twice keeps its first place    *)
(* and its last value.  A file is [exists, valid, doc]: doc is the JSON value   *)
(* written ([type, body]), valid whether the text is complete JSON.        *)
(***************************************************************************)
NoDoc == [type |-> "object", body |-> << >>]
NoFile == [exists |-> FALSE, valid |-> FALSE, doc |-> NoDoc]
JsonText(doc) == [exists |-> TRUE, valid |-> TRUE, doc |-> doc]
BrokenText(doc) == [exists |-> TRUE, valid |-> FALSE, doc |-> doc]

\* json.dump of a dict
json_dump(d) ==
  [type |-> "object", body |-> [n \in 1..Len(d) |-> [name |-> d[n].k.s, v |-> d[n].v]]]

LoadMember(acc, m) == [acc EXCEPT !.d = DictSet(@, StrKey(m.name), m.v)]

\* json.loads of an object (a dict) or an array (a list)
json_loads(doc) ==
  IF doc.type = "array" THEN doc.body
  ELSE ForEach(LoadMember, doc.body, 1, Len(doc.body), [stop |-> FALSE, d |-> EmptyDict]).d

(***************************************************************************)
(* load_json(path).  access says what the file system lets the process do  *)
(* with path: "ok", "no_read" (read_text raises) or "no_stat" (the file    *)
(* cannot be stat'ed: Path.exists raises every OSError but ENOENT,         *)
(* ENOTDIR, EBADF and ELOOP).  The result is [exc, value]: exc is "" when  *)
(* load_json returns value, and the exception's name when it propagates.   *)
(***************************************************************************)
Returned(v) == [exc |-> "", value |-> v]
Raised(e) == [exc |-> e, value |-> EmptyDict]

\* path.exists(), lines 27, 112
path_exists(file, access) ==
  IF access = "no_stat" THEN [exc |-> "PermissionError", value |-> FALSE]
  ELSE [exc |-> "", value |-> file.exists]

load_json(file, access) ==
  LET exists == path_exists(file, access)
  IN  IF exists.exc # "" THEN Raised(exists.exc)
      ELSE IF exists.value
      THEN LET text   == IF access = "ok" THEN Returned(file) ELSE Raised("OSError")
               parsed == IF text.exc # "" THEN text
                         ELSE IF ~file.valid THEN Raised("JSONDecodeError")
                         ELSE Returned(json_loads(file.doc))
           IN  CASE parsed.exc = "JSONDecodeError" -> Returned(EmptyDict)
                 [] parsed.exc # ""                -> Returned(EmptyDict)
                 [] OTHER                          -> parsed
      ELSE Returned(EmptyDict)

(***************************************************************************)
(* Pages.  A fetched page is [anchors, selected]: anchors, the a elements  *)
(* in document order, each [text, href], text the words of                 *)
(* a.get_text().split() and href None when the attribute is missing;       *)
(* selected, for each selector of the config the elements soup.select      *)
(* gives on the page, each once, in document order, each [name, anchors]:  *)
(* its tag and the places in anchors of the anchor itself (an a element)   *)
(* or of the anchors inside it.                                            *)
(***************************************************************************)
Fold ==
  [A |-> "a", B |-> "b", C |-> "c", D |-> "d", E |-> "e", F |-> "f", G |-> "g",
   H |-> "h", I |-> "i", J |-> "j", K |-> "k", L |-> "l", M |-> "m", N |-> "n",
   O |-> "o", P |-> "p", Q |-> "q", R |-> "r", S |-> "s", T |-> "t", U |-> "u",
   V |-> "v", W |-> "w", X |-> "x", Y |-> "y", Z |-> "z"]

\* str.lower() on a list of characters
Lower(e) == [n \in 1..Len(e) |-> IF e[n] \in DOMAIN Fold THEN Fold[e[n]] ELSE e[n]]

\* href.lower().endswith(".pdf"), lines 183 and dop_watch.py:74
EndsWithPdf(href) == Lower(href.ext) = <<"p", "d", "f">>

\* urljoin(base, href) for an absolute or a relative href
urljoin(base, href) ==
  [host |-> IF href.host = "" THEN base ELSE href.host, doc |-> href.doc, ext |-> href.ext]

EmptyHref == [host |-> "", doc |-> 0, ext |-> << >>]

\* " ".join(words)
JoinWord(acc, word) ==
  [acc EXCEPT !.s = IF @ = << >> THEN word ELSE @ \o <<" ">> \o word]

Join(words) == ForEach(JoinWord, words, 1, Len(words), [stop |-> FALSE, s |-> << >>]).s

\* lines 166-171, one selected element
ExtendLinks(acc, el) ==
  IF el.name = "a" THEN [acc EXCEPT !.links = Append(@, acc.anchors[el.anchors[1]])]
  ELSE [acc EXCEPT !.links = @ \o [n \in 1..Len(el.anchors) |-> acc.anchors[el.anchors[n]]]]

\* lines 162-173
Links(site, page) ==
  IF Truthy(site, "selector")
  THEN ForEach(ExtendLinks, page.selected[site.selector], 1,
               Len(page.selected[site.selector]),
               [stop |-> FALSE, anchors |-> page.anchors, links |-> << >>]).links
  ELSE SelectSeq(page.anchors, LAMBDA a : a.href # None)

\* lines 177-190, one anchor
CollectItem(acc, a) ==
  LET href == IF a.href = None THEN EmptyHref ELSE a.href
  IN  IF href = EmptyHref THEN acc
      ELSE IF acc.pdfOnly /\ ~EndsWithPdf(href) THEN acc
      ELSE [acc EXCEPT !.items = Append(@,
              [title |-> IF a.text = << >> THEN <<"Untitled", " ", "Document">>
                         ELSE Join(a.text),
               link  |-> urljoin(acc.base, href)])]

\* lines 176-190
CurrentItems(site, page) ==
  LET links == Links(site, page)
      base  == IF Truthy(site, "base_url") THEN site.base_url ELSE site.url
  IN  ForEach(CollectItem, links, 1, Len(links),
              [stop |-> FALSE, pdfOnly |-> ~Truthy(site, "selector"),
               base |-> base, items |-> << >>]).items

(***************************************************************************)
(* The differencing strategies (lines 198-241).  A site_state is a dict    *)
(* with str keys, held as a record over "seen_urls" and "last_seen_url";   *)
(* new_items is a list of [title, link].                                   *)
(***************************************************************************)
DefaultSiteState == [seen_urls |-> << >>]

\* lines 211-214, one item
TrackAllItem(acc, it) ==
  IF it.link \in acc.set THEN acc
  ELSE [acc EXCEPT !.new  = Append(@, it),
                   !.list = Append(@, it.link),
                   !.set  = @ \cup {it.link}]

\* a prune that slices from the wrong end: list[:1000]
PruneKeepsOldest(list) ==
  IF Len(list) > SeenCap THEN SubSeq(list, 1, SeenCap) ELSE list

\* lines 217-219
Prune(list) ==
  IF Len(list) > SeenCap THEN SubSeq(list, Len(list) - SeenCap + 1, Len(list)) ELSE list


\* a track_all that tests membership against the loaded list only
TrackAllNoDedup(site_state, current_items) ==
  LET seen == Get(site_state, "seen_urls", << >>)
      new  == SelectSeq(current_items, LAMBDA it : it.link \notin Range(seen))
  IN  [new_items  |-> new,
       site_state |-> SetField(site_state, "seen_urls",
                               Prune(seen \o [n \in 1..Len(new) |-> new[n].link]))]

\* lines 208-223
TrackAll(site_state, current_items) ==
  LET seen == Get(site_state, "seen_urls", << >>)
      r    == ForEach(TrackAllItem, current_items, 1, Len(current_items),
                      [stop |-> FALSE, new |-> << >>, list |-> seen, set |-> Range(seen)])
  IN  [new_items |-> r.new, site_state |-> SetField(site_state, "seen_urls", Prune(r.list))]

\* lines 236-239, one item
WalkItem(acc, it) ==
  IF it.link = acc.last_seen THEN [acc EXCEPT !.stop = TRUE]
  ELSE [acc EXCEPT !.new = Append(@, it)]

\* a track_latest that reports the top item only
TrackLatestTopOnly(site_state, current_items) ==
  LET top == current_items[1]
  IN  IF top.link # Get(site_state, "last_seen_url", None)
      THEN [new_items  |-> <<top>>,
            site_state |-> SetField(site_state, "last_seen_url", top.link)]
      ELSE [new_items |-> << >>, site_state |-> site_state]

\* lines 225-241
TrackLatest(site_state, current_items) ==
  LET top       == current_items[1]
      last_seen == Get(site_state, "last_seen_url", None)
  IN  IF top.link # last_seen
      THEN [new_items  |-> ForEach(WalkItem, current_items, 1, Len(current_items),
                                   [stop |-> FALSE, new |-> << >>, last_seen |-> last_seen]).new,
            site_state |-> SetField(site_state, "last_seen_url", top.link)]
      ELSE [new_items |-> << >>, site_state |-> site_state]

\* lines 198-241: the strategy select
Diff(strategy, site_state, current_items) ==
  CASE strategy = "track_all"    -> TrackAll(site_state, current_items)
    [] strategy = "track_latest" -> TrackLatest(site_state, current_items)
    [] OTHER                     -> [new_items |-> << >>, site_state |-> site_state]

(***************************************************************************)
(* update_history (lines 100-121).  The archive is the list of its lines;  *)
(* a file is [exists, lines].  access is as for load_json; wr is the       *)
(* outcome of write_text: "ok", "open_fails" (nothing is touched) or       *)
(* "write_fails", when the file, emptied on open, is left with what was    *)
(* written before the failure, any beginning of the text: written.lines    *)
(* whole lines and, with written.cut, the beginning of the next.  The      *)
(* result is [file, exc].                                                  *)
(***************************************************************************)
NoHistory == [exists |-> FALSE, lines |-> << >>]

\* str.replace(old, new) on the pieces of a string
Replace(s, old, new) == [n \in 1..Len(s) |-> IF s[n] = old THEN new ELSE s[n]]

\* line 106
EscapeTitle(title) == Replace(Replace(title, "]", "\\]"), "[", "\\[")

\* lines 102-109
NewBlock(site_name, items, now) ==
  <<[kind |-> "h3", name |-> site_name, at |-> now]>>
  \o [n \in 1..Len(items) |->
        [kind |-> "item", title |-> EscapeTitle(items[n].title), link |-> items[n].link]]
  \o <<[kind |-> "rule"]>>

\* what a write that fails part-way leaves of content
CutShort(content, written) ==
  SubSeq(content, 1, written.lines)
  \o (IF written.cut /\ written.lines < Len(content)
      THEN <<[kind |-> "cut", of |-> content[written.lines + 1]]>> ELSE << >>)

\* lines 111-116: what is read of the file when its exists() does not raise
current_content(file, access) ==
  IF path_exists(file, access).value /\ access = "ok" THEN file.lines ELSE << >>

update_history(file, site_name, items, now, access, wr, written) ==
  LET new_block == NewBlock(site_name, items, now)
      exists    == path_exists(file, access)
  IN  IF exists.exc # "" THEN [file |-> file, exc |-> exists.exc]
      ELSE LET content == new_block \o current_content(file, access)
           IN  CASE wr = "ok"         -> [file |-> [exists |-> TRUE, lines |-> content],
                                          exc |-> ""]
                 [] wr = "open_fails" -> [file |-> file, exc |-> ""]
                 [] OTHER -> [file |-> [exists |-> TRUE,
                                        lines |-> CutShort(content, written)],
                              exc |-> ""]

(***************************************************************************)
(* notify (lines 83-98) and the loop of lines 250-251.  A post is          *)
(* [topic, name, title, link, result]; result is "ok", "status" (ntfy      *)
(* answered neither 200 nor 201) or "exception".  The results of a site's  *)
(* posts are given by a pattern: "ok" (all succeed), "status" or           *)
(* "exception" (all fail that way), "first" (the first post raises).       *)
(***************************************************************************)
PostResult(pattern, n) ==
  CASE pattern = "first" -> IF n = 1 THEN "exception" ELSE "ok"
    [] OTHER             -> pattern


\* lines 250-251: the posts made for new_items, oldest first
NotifyAll(topic, name, new_items, pattern) ==
  LET rev == Reverse(new_items)
  IN  [n \in 1..Len(rev) |->
        [topic |-> topic, name |-> name, title |-> rev[n].title,
         link |-> rev[n].link, result |-> PostResult(pattern, n)]]

(***************************************************************************)
(* save_json (lines 38-49), step by step.  files is [target, tmp]; each    *)
(* step gives the files after it and exc, "" or the exception re-raised    *)
(* by line 49.                                                             *)
(***************************************************************************)
\* lines 41-43: the temporary file is created, empty
save_open(files, ok) ==
  IF ok THEN [target |-> files.target, tmp |-> BrokenText(NoDoc), exc |-> ""]
  ELSE [target |-> files.target, tmp |-> files.tmp, exc |-> "OSError"]

\* the members of doc written before a write fails
Partial(doc, k) == [type |-> doc.type, body |-> SubSeq(doc.body, 1, k)]

\* a save that dumps straight into the target file
save_dump_in_place(files, data, ok, k) ==
  IF ok THEN [target |-> JsonText(json_dump(data)), tmp |-> files.tmp, exc |-> ""]
  ELSE [target |-> BrokenText(Partial(json_dump(data), k)), tmp |-> files.tmp,
        exc |-> "OSError"]

\* lines 44-45: json.dump into the temporary file
save_dump(files, data, ok, k) ==
  IF ok THEN [target |-> files.target, tmp |-> JsonText(json_dump(data)), exc |-> ""]
  ELSE [target |-> files.target, tmp |-> BrokenText(Partial(json_dump(data), k)),
        exc |-> "OSError"]

\* line 46: the temporary file is renamed over the target
save_replace(files, ok) ==
  IF ok THEN [target |-> files.tmp, tmp |-> NoFile, exc |-> ""]
  ELSE [target |-> files.target, tmp |-> files.tmp, exc |-> "OSError"]

(***************************************************************************)
(* dop-watcher (src/old_repo/dop-watcher/dop_watch.py): one page, one      *)
(* state file {"seen_urls": [...]}, one archive.  The archive is the list  *)
(* of its lines, a file [exists, lines].                                   *)
(***************************************************************************)
\* dop_watch.py:19
BASE_DOMAIN == "dop.rajasthan.gov.in"

SeenKey == StrKey("seen_urls")

\* dop_watch.py:32-37; STATE_FILE.exists() stands outside the try, the bare except
\* takes a failed read and a failed parse alike
load_state(file, access) ==
  LET exists == path_exists(file, access)
  IN  IF exists.exc # "" THEN Raised(exists.exc)
      ELSE IF exists.value /\ access = "ok" /\ file.valid
      THEN Returned(json_loads(file.doc))
      ELSE Returned(<<[k |-> SeenKey, v |-> << >>]>>)

\* dop_watch.py:39-40: write_text straight into the state file; wr is "ok",
\* "open_fails" (nothing is touched) or "write_fails" (the file is left cut short)
save_state(file, st, wr) ==
  CASE wr = "ok"         -> [file |-> JsonText(json_dump(st)), exc |-> ""]
    [] wr = "open_fails" -> [file |-> file, exc |-> "OSError"]
    [] OTHER             -> [file |-> BrokenText(Partial(json_dump(st), 0)),
                             exc |-> "OSError"]

\* lines 73-81 with a suffix test that does not fold the case
DopCollectCaseSensitive(acc, a) ==
  IF a.href.ext # <<"p", "d", "f">> THEN acc
  ELSE LET full_url == urljoin(BASE_DOMAIN, a.href)
           title    == IF a.text = << >> THEN <<"Untitled", " ", "Order">>
                       ELSE Join(a.text)
       IN  IF full_url \in acc.seen THEN acc
           ELSE [acc EXCEPT !.items = Append(@, [title |-> title, link |-> full_url])]

\* lines 73-81, one anchor
DopCollect(acc, a) ==
  IF ~EndsWithPdf(a.href) THEN acc
  ELSE LET full_url == urljoin(BASE_DOMAIN, a.href)
           title    == IF a.text = << >> THEN <<"Untitled", " ", "Order">>
                       ELSE Join(a.text)
       IN  IF full_url \in acc.seen THEN acc
           ELSE [acc EXCEPT !.items = Append(@, [title |-> title, link |-> full_url])]

\* lines 71-81: the items of the page whose URL is not in seen_urls
DopNewItems(anchors, seen_urls) ==
  LET links == SelectSeq(anchors, LAMBDA a : a.href # None)
  IN  ForEach(DopCollect, links, 1, Len(links),
              [stop |-> FALSE, seen |-> seen_urls, items |-> << >>]).items

\* lines 92-101: the archive text of a run, oldest item first
ArchiveContent(new_items, today, is_first_run) ==
  LET rev == Reverse(new_items)
  IN  <<[kind |-> "h2", at |-> today, initial |-> is_first_run]>>
      \o [n \in 1..Len(rev) |-> [kind |-> "entry", title |-> rev[n].title,
                                 url |-> rev[n].link]]

\* lines 104-110: the posts of a run, oldest item first
DopPosts(new_items, pattern) ==
  LET rev == Reverse(new_items)
  IN  [n \in 1..Len(rev) |->
        [title |-> rev[n].title, link |-> rev[n].link, result |-> PostResult(pattern, n)]]

\* line 113, for every item of the loop of line 99
DopRemember(st, new_items) ==
  DictSet(st, SeenKey, DictGet(st, SeenKey, << >>) \o LinksOf(Reverse(new_items)))

\* lines 116-120: the text handed to write_text
ArchiveText(file, archive_content) ==
  IF file.exists THEN archive_content \o file.lines
  ELSE <<[kind |-> "title"]>> \o archive_content

\* lines 116-120; access, wr and written as for update_history
write_archive(file, archive_content, access, wr, written) ==
  LET exists == path_exists(file, access)
  IN  IF exists.exc # "" THEN [file |-> file, exc |-> exists.exc]
      ELSE IF exists.value /\ access # "ok" THEN [file |-> file, exc |-> "OSError"]
      ELSE LET content == ArchiveText(file, archive_content)
           IN  CASE wr = "ok" -> [file |-> [exists |-> TRUE, lines |-> content],
                                  exc |-> ""]
                 [] wr = "open_fails" -> [file |-> file, exc |-> "OSError"]
                 [] OTHER -> [file |-> [exists |-> TRUE,
                                        lines |-> CutShort(content, written)],
                              exc |-> "OSError"]

(***************************************************************************)
(* The environment: config.json, the pages the sites serve, and what       *)
(* misbehaves during a run.                                                *)
(***************************************************************************)
Anchor(words, host, doc, ext) ==
  [text |-> words, href |-> [host |-> host, doc |-> doc, ext |-> ext]]

\* an anchor without href attribute, and one whose href is blank
NoHrefAnchor == [text |-> << <<"top">> >>, href |-> None]
BlankHrefAnchor == [text |-> << <<"here">> >>, href |-> EmptyHref]

pdf == <<"p", "d", "f">>
PDF == <<"P", "D", "F">>
Pdf == <<"P", "d", "f">>
html == <<"h", "t", "m", "l">>
txt == <<"t", "x", "t">>

\* soup.select of a selector that targets anchors: the anchors at the places idx,
\* each once, in document order
PickAnchors(idx) == [n \in 1..Len(idx) |-> [name |-> "a", anchors |-> <<idx[n]>>]]

\* soup.select of a selector that targets cells: one element for each cell, with
\* the places of the anchors inside it
PickCells(cells) == [n \in 1..Len(cells) |-> [name |-> "td", anchors |-> cells[n]]]

\* what soup.select gives on a page for the selectors of the config
Selected(td_a, td) == ("td a" :> td_a) @@ ("td" :> td)

NoCells == Selected(<< >>, << >>)

\* a listing of the n documents first+1 .. first+n, newest first
Listing(first, n) ==
  [m \in 1..n |-> Anchor(<< <<"Order">> >>, "", first + n + 1 - m, pdf)]

\* the pages a URL serves over time, oldest first: the everyday scenario
Everyday(url) ==
  CASE url = "dop.gov" ->
         << [anchors  |-> <<Anchor(<< <<"Order">>, <<"1">> >>, "", 1, pdf)>>,
             selected |-> NoCells],
            [anchors  |-> <<Anchor(<< <<"[", "Order">>, <<"2", "]">> >>, "", 2, PDF),
                            Anchor(<< <<"Order">>, <<"1">> >>, "", 1, pdf),
                            Anchor(<< <<"About">> >>, "", 9, html),
                            Anchor(<< >>, "dop.gov", 2, PDF),
                            NoHrefAnchor,
                            BlankHrefAnchor,
                            Anchor(<< <<"a", "[", "b", "]", "c">> >>, "", 4, Pdf)>>,
             selected |-> NoCells],
            [anchors  |-> <<Anchor(<< <<"Order">>, <<"3">> >>, "", 3, pdf),
                            Anchor(<< <<"[", "Order">>, <<"2", "]">> >>, "", 2, PDF)>>,
             selected |-> NoCells] >>
    [] OTHER ->
         << [anchors  |-> <<Anchor(<< <<"Circular">>, <<"1">> >>, "", 1, html),
                            Anchor(<< <<"Home">> >>, "", 9, html)>>,
             selected |-> Selected(PickAnchors(<<1>>), PickCells(<< <<1>> >>))],
            \* a cell inside a cell: "td a" picks the four anchors, each once; "td"
            \* picks both cells, and the anchor of the inner one is listed again
            [anchors  |-> <<Anchor(<< <<"Circular">>, <<"3">> >>, "", 3, html),
                            Anchor(<< <<"Circular">>, <<"2">> >>, "", 2, pdf),
                            NoHrefAnchor,
                            Anchor(<< <<"Circular">>, <<"1">> >>, "", 1, html),
                            Anchor(<< <<"Home">> >>, "", 9, html)>>,
             selected |-> Selected(PickAnchors(<<1, 2, 3, 4>>),
                                   PickCells(<< <<1, 2, 3, 4>>, <<2>> >>))],
            [anchors  |-> <<Anchor(<< <<"Circular">>, <<"5">> >>, "", 5, html),
                            Anchor(<< <<"Circular">>, <<"4">> >>, "", 4, html)>>,
             selected |-> Selected(PickAnchors(<<1, 2>>),
                                   PickCells(<< <<1>>, <<2>> >>))] >>

\* the scenario of a listing longer than the cap
LongListing(url) ==
  CASE url = "dop.gov" ->
         << [anchors  |-> <<Anchor(<< <<"Order">>, <<"1">> >>, "", 1, pdf),
                            Anchor(<< <<"Order">>, <<"2">> >>, "", 2, pdf)>>,
             selected |-> NoCells],
            [anchors  |-> Listing(100, SeenCap + 1), selected |-> NoCells] >>
    [] OTHER ->
         << [anchors  |-> <<Anchor(<< <<"Home">> >>, "", 9, html)>>,
             selected |-> NoCells],
            [anchors  |-> <<Anchor(<< <<"Circular">>, <<"2">> >>, "", 2, html),
                            Anchor(<< <<"Circular">>, <<"1">> >>, "", 1, html)>>,
             selected |-> Selected(PickAnchors(<<1, 2>>), PickCells(<< <<1, 2>> >>))] >>

Scenarios == {"everyday", "long"}

Chain(scenario, url) == IF scenario = "long" THEN LongListing(url) ELSE Everyday(url)

SiteAll == [id |-> StrKey("dop"), name |-> "DoP", url |-> "dop.gov",
            strategy |-> "track_all", topic |-> "dop_alerts"]
SiteLatest == [id |-> StrKey("raj"), name |-> "Raj", url |-> "raj.gov",
               selector |-> "td a", base_url |-> "cdn.raj.gov"]
SiteIntId == [id |-> IntKey("7"), name |-> "Raj7", url |-> "raj.gov",
              selector |-> "td", strategy |-> "track_latest"]
SiteNoId == [name |-> "Nameless", url |-> "dop.gov", strategy |-> "track_all"]

\* the contents of config.json a behaviour may start with
Configs ==
  { NoFile,
    JsonText([type |-> "array", body |-> <<SiteAll, SiteNoId, SiteLatest, SiteIntId>>]) }

\* what a run meets: the URL that cannot be fetched, the URL whose page the parser
\* rejects, what can be done with state.json and history.md, the outcome of writing
\* history.md, the results of the posts, and the step of save_json that fails
Fine == [down |-> "", malformed |-> "", stateAccess |-> "ok", histAccess |-> "ok",
         histWrite |-> "ok", post |-> "ok", save |-> "ok"]

Conditions ==
  { Fine,
    [Fine EXCEPT !.down = "dop.gov"],
    [Fine EXCEPT !.down = "raj.gov"],
    [Fine EXCEPT !.malformed = "raj.gov"],
    [Fine EXCEPT !.stateAccess = "no_read"],
    [Fine EXCEPT !.stateAccess = "no_stat"],
    [Fine EXCEPT !.histAccess = "no_read"],
    [Fine EXCEPT !.histAccess = "no_stat"],
    [Fine EXCEPT !.post = "first"],
    [Fine EXCEPT !.post = "exception"],
    [Fine EXCEPT !.histWrite = "open_fails", !.post = "status"],
    [Fine EXCEPT !.histWrite = "write_fails"],
    [Fine EXCEPT !.save = "open"],
    [Fine EXCEPT !.save = "dump"],
    [Fine EXCEPT !.save = "replace"] }

\* the conditions the runs of a scenario meet: the long listing is met with what
\* bears on the fetch and on state.json, the failures of history.md and of ntfy.sh
\* are met on the everyday pages
ConditionsOf(sc) ==
  IF sc = "long"
  THEN {c \in Conditions : c.histAccess = "ok" /\ c.histWrite = "ok" /\ c.post = "ok"}
  ELSE Conditions

\* the pages dop_watch may be served
DopPages ==
  { <<Anchor(<< <<"Ignore">> >>, "", 7, txt)>>,
    <<Anchor(<< <<"Test">>, <<"Order">>, <<"1">> >>, "", 1, pdf),
      Anchor(<< <<"External">>, <<"Order">> >>, "example.com", 8, pdf),
      Anchor(<< <<"Ignore">> >>, "", 7, txt)>>,
    <<Anchor(<< <<"Order">>, <<"2">> >>, "", 2, PDF),
      Anchor(<< <<"Test">>, <<"Order">>, <<"1">> >>, "", 1, pdf),
      NoHrefAnchor,
      BlankHrefAnchor,
      Anchor(<< >>, BASE_DOMAIN, 2, PDF),
      Anchor(<< <<"Order">>, <<"3">> >>, "", 3, Pdf)>> }

\* the state files a behaviour of dop_watch may start with
DopStates ==
  { NoFile,
    JsonText(json_dump(EmptyDict)),
    JsonText(json_dump(<<[k |-> SeenKey,
                          v |-> <<[host |-> BASE_DOMAIN, doc |-> 1, ext |-> pdf]>>]>>)) }

\* what a run of dop_watch meets: the fetch ("ok", "fails": curl exits non-zero or
\* raises), what can be done with state.json and with the archive, the outcome of
\* writing the archive and of writing state.json, the results of the posts
DopFine == [fetch |-> "ok", stateAccess |-> "ok", archAccess |-> "ok",
            archWrite |-> "ok", save |-> "ok", post |-> "ok"]

DopConditions ==
  { DopFine,
    [DopFine EXCEPT !.fetch = "fails"],
    [DopFine EXCEPT !.stateAccess = "no_read"],
    [DopFine EXCEPT !.stateAccess = "no_stat"],
    [DopFine EXCEPT !.archAccess = "no_read"],
    [DopFine EXCEPT !.archAccess = "no_stat"],
    [DopFine EXCEPT !.archWrite = "write_fails"],
    [DopFine EXCEPT !.save = "open_fails"],
    [DopFine EXCEPT !.save = "write_fails"],
    [DopFine EXCEPT !.post = "first"],
    [DopFine EXCEPT !.post = "exception"] }

(***************************************************************************)
(* The state.                                                              *)
(***************************************************************************)
VARIABLES
  cfgFile,    \* config.json
  stateFile,  \* state.json
  tmpFile,    \* the temporary file of the last save_json
  histFile,   \* history.md
  scenario,   \* which pages the sites serve
  epoch,      \* which page of its chain every URL serves now
  cond,       \* what the current run meets
  disturbed,  \* disturbed runs and corruptions so far
  pc,         \* where run_watcher is: "idle", "loop", "dump", "replace"
  config,     \* run_watcher's config
  state,      \* run_watcher's state
  i,          \* the index of the config entry the loop is at
  runs,       \* runs started, also the clock of the archive's timestamps
  sent,       \* the posts made to ntfy.sh by the current run, in order
  loaded,     \* the last load of state.json: [exists, valid, access, result]
  last,       \* what the last loop iteration did
  fetched,    \* per entry of the current run, the outcome and the page fetched
  found,      \* new items found by the current run so far
  histAtBegin,\* history.md when the current run began
  prevFetched,\* fetched of the previous run, if the current run began from the
              \* state that run saved
  ended       \* how the last run ended

\* dop_watch
VARIABLES
  dStateFile, \* its state.json
  dArchive,   \* dop-orders.md
  dPage,      \* the page the site serves
  dCond,      \* what the current run meets
  dDisturbed, \* disturbed runs so far
  dPc,        \* where main is: "idle", "archive", "save"
  dState,     \* main's state
  dContent,   \* main's archive_content
  dRuns,      \* runs started, also the clock of the archive's dates
  dPosts,     \* the posts made by the current run, in order
  dLast,      \* the current run: the page it met, what it loaded, how it ended
  dPrev       \* the run before it, and the files it left

watcherVars == <<cfgFile, stateFile, tmpFile, histFile, scenario, epoch, cond, disturbed,
                 pc, config, state, i, runs, sent, loaded, last, fetched, found,
                 histAtBegin, prevFetched, ended>>

dopVars == <<dStateFile, dArchive, dPage, dCond, dDisturbed, dPc, dState, dContent,
             dRuns, dPosts, dLast, dPrev>>

vars == <<watcherVars, dopVars>>

NoIteration ==
  [idx |-> 0, outcome |-> "none", strategy |-> "", items |-> << >>,
   before |-> DefaultSiteState, new |-> << >>, after |-> DefaultSiteState,
   sentBefore |-> 0]

WatcherInit ==
  /\ cfgFile \in Configs
  /\ stateFile = NoFile
  /\ tmpFile = NoFile
  /\ histFile = NoHistory
  /\ scenario \in Scenarios
  /\ epoch = 1
  /\ cond = Fine
  /\ disturbed = 0
  /\ pc = "idle"
  /\ config = << >>
  /\ state = EmptyDict
  /\ i = 0
  /\ runs = 0
  /\ sent = << >>
  /\ loaded = [exists |-> FALSE, valid |-> FALSE, access |-> "ok",
               result |-> Returned(EmptyDict)]
  /\ last = NoIteration
  /\ fetched = << >>
  /\ found = 0
  /\ histAtBegin = NoHistory
  /\ prevFetched = << >>
  /\ ended = ""

NoDopRun == [outcome |-> "none", page |-> << >>, access |-> "ok", seenBefore |-> << >>,
             new |-> << >>, stateFile |-> NoFile, archive |-> NoHistory]

DopInit ==
  /\ dStateFile \in DopStates
  /\ dArchive = NoHistory
  /\ dPage \in DopPages \cup {<< >>}
  /\ dCond = DopFine
  /\ dDisturbed = 0
  /\ dPc = "idle"
  /\ dState = EmptyDict
  /\ dContent = << >>
  /\ dRuns = 0
  /\ dPosts = << >>
  /\ dLast = NoDopRun
  /\ dPrev = NoDopRun

\* gov-watcher with dop-watcher never run
Init ==
  /\ WatcherInit
  /\ DopInit /\ dStateFile = NoFile /\ dPage = << >>

\* the sites publish their next pages
Publish ==
  /\ pc = "idle"
  /\ runs < MaxRuns
  /\ epoch < Len(Chain(scenario, "dop.gov"))
  /\ epoch' = epoch + 1
  /\ UNCHANGED <<cfgFile, stateFile, tmpFile, histFile, scenario, cond, disturbed, pc,
                 config, state, i, runs, sent, loaded, last, fetched, found,
                 histAtBegin, prevFetched, ended>>
  /\ UNCHANGED dopVars

\* state.json is damaged between two runs: what is left of it is no JSON
Corrupt ==
  /\ pc = "idle"
  /\ runs < MaxRuns
  /\ stateFile.exists /\ stateFile.valid
  /\ disturbed < MaxDisturbed
  /\ disturbed' = disturbed + 1
  /\ stateFile' = BrokenText(Partial(stateFile.doc, 0))
  /\ prevFetched' = << >>
  /\ UNCHANGED <<cfgFile, tmpFile, histFile, scenario, epoch, cond, pc, config, state,
                 i, runs, sent, loaded, last, fetched, found, histAtBegin, ended>>
  /\ UNCHANGED dopVars

\* lines 126-135: a run starts; with no config it ends at once, and a load of
\* state.json that raises ends it too
Begin ==
  /\ pc = "idle"
  /\ runs < MaxRuns
  /\ runs' = runs + 1
  /\ LET cfg == load_json(cfgFile, "ok").value
     IN  IF cfg = << >>
         THEN /\ ended' = "no_config"
              /\ UNCHANGED <<cond, disturbed, pc, config, state, i, sent, loaded, last,
                             fetched, found, histAtBegin, prevFetched>>
         ELSE \E c \in ConditionsOf(scenario) :
                /\ c = Fine \/ disturbed < MaxDisturbed
                /\ c.stateAccess = "no_read" => stateFile.exists
                /\ cond' = c
                /\ disturbed' = IF c = Fine THEN disturbed ELSE disturbed + 1
                /\ config' = cfg
                /\ loaded' = [exists |-> stateFile.exists, valid |-> stateFile.valid,
                              access |-> c.stateAccess,
                              result |-> load_json(stateFile, c.stateAccess)]
                /\ state' = loaded'.result.value
                /\ pc' = IF loaded'.result.exc = "" THEN "loop" ELSE "idle"
                /\ ended' = IF loaded'.result.exc = "" THEN "" ELSE "aborted"
                /\ i' = 1
                /\ sent' = << >>
                /\ last' = NoIteration
                /\ fetched' = << >>
                /\ found' = 0
                /\ histAtBegin' = histFile
                /\ prevFetched' = IF c.stateAccess = "ok" THEN prevFetched ELSE << >>
  /\ UNCHANGED <<cfgFile, stateFile, tmpFile, histFile, scenario, epoch>>
  /\ UNCHANGED dopVars

Site == config[i]

\* the loop goes on to the next entry (continue, or the end of the body)
Continue(outcome) ==
  /\ i' = i + 1
  /\ fetched' = Append(fetched, [outcome |-> outcome, epoch |-> epoch])
  /\ UNCHANGED <<cfgFile, stateFile, tmpFile, scenario, epoch, cond, disturbed, pc,
                 config, runs, loaded, histAtBegin, prevFetched, ended>>
  /\ UNCHANGED dopVars

\* lines 147-149
SkipInvalid ==
  /\ pc = "loop" /\ i <= Len(config)
  /\ ~(Truthy(Site, "id") /\ Truthy(Site, "name") /\ Truthy(Site, "url"))
  /\ last' = [NoIteration EXCEPT !.idx = i, !.outcome = "invalid"]
  /\ Continue("invalid")
  /\ UNCHANGED <<histFile, state, sent, found>>

Valid == pc = "loop" /\ i <= Len(config)
         /\ Truthy(Site, "id") /\ Truthy(Site, "name") /\ Truthy(Site, "url")

\* a skip that leaves a fresh entry behind: state[site_id] = {"seen_urls": []}
FetchFailsResetsEntry ==
  /\ Valid
  /\ cond.down = Site.url
  /\ last' = [NoIteration EXCEPT !.idx = i, !.outcome = "fetch_failed"]
  /\ Continue("fetch_failed")
  /\ state' = DictSet(state, Site.id, DefaultSiteState)
  /\ UNCHANGED <<histFile, sent, found>>

\* lines 153-156: fetch_html gives None
FetchFails ==
  /\ Valid
  /\ cond.down = Site.url
  /\ last' = [NoIteration EXCEPT !.idx = i, !.outcome = "fetch_failed"]
  /\ Continue("fetch_failed")
  /\ UNCHANGED <<histFile, state, sent, found>>

\* lines 158-173: BeautifulSoup or soup.select raises; nothing catches it
ParseFails ==
  /\ Valid
  /\ cond.down # Site.url
  /\ cond.malformed = Site.url
  /\ last' = [NoIteration EXCEPT !.idx = i, !.outcome = "parse_failed"]
  /\ pc' = "idle"
  /\ ended' = "aborted"
  /\ prevFetched' = << >>
  /\ UNCHANGED <<cfgFile, stateFile, tmpFile, histFile, scenario, epoch, cond,
                 disturbed, config, state, i, runs, sent, loaded, fetched, found,
                 histAtBegin>>
  /\ UNCHANGED dopVars

Fetched == Valid /\ cond.down # Site.url /\ cond.malformed # Site.url

Page == Chain(scenario, Site.url)[epoch]

\* lines 192-194
NoItems ==
  /\ Fetched
  /\ CurrentItems(Site, Page) = << >>
  /\ last' = [NoIteration EXCEPT !.idx = i, !.outcome = "no_items"]
  /\ Continue("no_items")
  /\ UNCHANGED <<histFile, state, sent, found>>

\* what a write of a text of n lines that fails may have written: any beginning of
\* the text short of the whole
Writes(wr, n) ==
  IF wr = "write_fails" THEN [lines : 0..(n - 1), cut : BOOLEAN]
  ELSE {[lines |-> 0, cut |-> FALSE]}

\* lines 196-256: the page gave items
Process ==
  /\ Fetched
  /\ \E current_items \in {CurrentItems(Site, Page)} :
       /\ current_items # << >>
       /\ LET site_state == DictGet(state, Site.id, DefaultSiteState)
              strategy   == Get(Site, "strategy", "track_latest")
              topic      == Get(Site, "topic", "general_alerts")
          IN  \E d \in {Diff(strategy, site_state, current_items)} :
                /\ IF d.new_items # << >>
                   THEN \E written \in Writes(cond.histWrite,
                                               Len(d.new_items) + 2
                                               + Len(current_content(histFile,
                                                                     cond.histAccess))) :
                          /\ written.lines <= MaxWritten
                          /\ \E h \in {update_history(histFile, Site.name, d.new_items,
                                                      runs, cond.histAccess,
                                                      cond.histWrite, written)} :
                               /\ h.exc = ""
                               /\ histFile' = h.file
                               /\ sent' = sent \o NotifyAll(topic, Site.name,
                                                            d.new_items, cond.post)
                   ELSE UNCHANGED <<histFile, sent>>
                /\ last' = [idx |-> i, outcome |-> "processed", strategy |-> strategy,
                            items |-> current_items, before |-> site_state,
                            new |-> d.new_items, after |-> d.site_state,
                            sentBefore |-> Len(sent)]
                /\ state' = DictSet(state, Site.id, d.site_state)
                /\ found' = found + Len(d.new_items)
                /\ Continue("processed")

\* lines 196-247: the page gave new items and update_history raises (line 112);
\* nothing catches it
HistoryRaises ==
  /\ Fetched
  /\ path_exists(histFile, cond.histAccess).exc # ""
  /\ \E current_items \in {CurrentItems(Site, Page)} :
       /\ current_items # << >>
       /\ LET site_state == DictGet(state, Site.id, DefaultSiteState)
              strategy   == Get(Site, "strategy", "track_latest")
          IN  \E d \in {Diff(strategy, site_state, current_items)} :
                /\ d.new_items # << >>
                /\ update_history(histFile, Site.name, d.new_items, runs, cond.histAccess,
                                  cond.histWrite, [lines |-> 0, cut |-> FALSE]).exc # ""
                /\ last' = [idx |-> i, outcome |-> "history_raised",
                            strategy |-> strategy, items |-> current_items,
                            before |-> site_state, new |-> d.new_items,
                            after |-> d.site_state, sentBefore |-> Len(sent)]
  /\ pc' = "idle"
  /\ ended' = "aborted"
  /\ prevFetched' = << >>
  /\ UNCHANGED <<cfgFile, stateFile, tmpFile, histFile, scenario, epoch, cond,
                 disturbed, config, state, i, runs, sent, loaded, fetched, found,
                 histAtBegin>>
  /\ UNCHANGED dopVars

\* a step of save_json: the files after it, and where the run is then
SaveStep(r, next) ==
  /\ tmpFile' = r.tmp
  /\ stateFile' = r.target
  /\ pc' = IF r.exc = "" THEN next ELSE "idle"
  /\ ended' = IF r.exc # "" THEN "save_failed"
              ELSE IF next = "idle" THEN "saved" ELSE ended
  /\ prevFetched' = IF r.exc # "" THEN << >>
                    ELSE IF next = "idle" THEN fetched ELSE prevFetched
  /\ UNCHANGED <<cfgFile, histFile, scenario, epoch, cond, disturbed, config, state, i,
                 runs, sent, loaded, last, fetched, found, histAtBegin>>
  /\ UNCHANGED dopVars

\* lines 259, 41-43: the loop is over, save_json opens its temporary file
SaveOpen ==
  /\ pc = "loop" /\ i > Len(config)
  /\ SaveStep(save_open([target |-> stateFile, tmp |-> tmpFile], cond.save # "open"),
              "dump")

\* lines 44-45
SaveDump ==
  /\ pc = "dump"
  /\ \E k \in {0, Len(state)} :
       /\ cond.save # "dump" => k = 0
       /\ SaveStep(save_dump([target |-> stateFile, tmp |-> tmpFile], state,
                             cond.save # "dump", k), "replace")

\* lines 46, 260
SaveReplace ==
  /\ pc = "replace"
  /\ SaveStep(save_replace([target |-> stateFile, tmp |-> tmpFile],
                           cond.save # "replace"), "idle")

Next ==
  \/ Publish
  \/ Corrupt
  \/ Begin
  \/ SkipInvalid
  \/ FetchFails
  \/ ParseFails
  \/ NoItems
  \/ Process
  \/ HistoryRaises
  \/ SaveOpen
  \/ SaveDump
  \/ SaveReplace

Spec == Init /\ [][Next]_vars

(***************************************************************************)
(* dop_watch.main, step by step.                                           *)
(***************************************************************************)
\* the site serves another page
DopPublish ==
  /\ dPc = "idle"
  /\ dRuns < MaxRuns
  /\ \E p \in DopPages : p # dPage /\ dPage' = p
  /\ UNCHANGED <<dStateFile, dArchive, dCond, dDisturbed, dPc, dState, dContent, dRuns,
                 dPosts, dLast, dPrev>>
  /\ UNCHANGED watcherVars

\* lines 43-49: main starts under the conditions c
DopStart(c) ==
  /\ dPc = "idle"
  /\ dRuns < MaxRuns
  /\ c = DopFine \/ dDisturbed < MaxDisturbed
  /\ c.stateAccess = "no_read" => dStateFile.exists
  /\ dRuns' = dRuns + 1
  /\ dCond' = c
  /\ dDisturbed' = IF c = DopFine THEN dDisturbed ELSE dDisturbed + 1
  /\ dPrev' = [dLast EXCEPT !.stateFile = dStateFile, !.archive = dArchive]
  /\ UNCHANGED <<dStateFile, dArchive, dPage>>
  /\ UNCHANGED watcherVars

\* lines 43-46: the state main works on
DopLoaded(c) ==
  LET st == load_state(dStateFile, c.stateAccess).value
  IN  IF DictHas(st, SeenKey) THEN st ELSE DictSet(st, SeenKey, << >>)

DopRun(c, outcome, new_items) ==
  [outcome |-> outcome, page |-> dPage, access |-> c.stateAccess,
   seenBefore |-> DictGet(DopLoaded(c), SeenKey, << >>), new |-> LinksOf(new_items),
   stateFile |-> NoFile, archive |-> NoHistory]

\* lines 43, 33: load_state raises and ends main
DopLoadRaises ==
  \E c \in DopConditions :
    /\ DopStart(c)
    /\ load_state(dStateFile, c.stateAccess).exc # ""
    /\ dLast' = DopRun(c, "aborted", << >>)
    /\ dPosts' = << >>
    /\ UNCHANGED <<dPc, dState, dContent>>

\* lines 51-66: the fetch fails and main returns
DopFetchFails ==
  \E c \in DopConditions :
    /\ DopStart(c)
    /\ load_state(dStateFile, c.stateAccess).exc = ""
    /\ c.fetch # "ok"
    /\ dState' = DopLoaded(c)
    /\ dLast' = DopRun(c, "fetch_failed", << >>)
    /\ dPosts' = << >>
    /\ UNCHANGED <<dPc, dContent>>

\* lines 68-85: no link of the page is new and main returns
DopNothingNew ==
  \E c \in DopConditions :
    /\ DopStart(c)
    /\ load_state(dStateFile, c.stateAccess).exc = ""
    /\ c.fetch = "ok"
    /\ DopNewItems(dPage, Range(DictGet(DopLoaded(c), SeenKey, << >>))) = << >>
    /\ dState' = DopLoaded(c)
    /\ dLast' = DopRun(c, "nothing_new", << >>)
    /\ dPosts' = << >>
    /\ UNCHANGED <<dPc, dContent>>

\* lines 68-95: new items, and ARCHIVE_FILE.exists() raises and ends main
DopArchiveStatRaises ==
  \E c \in DopConditions :
    /\ DopStart(c)
    /\ load_state(dStateFile, c.stateAccess).exc = ""
    /\ c.fetch = "ok"
    /\ \E new_items \in {DopNewItems(dPage, Range(DictGet(DopLoaded(c), SeenKey, << >>)))} :
         /\ new_items # << >>
         /\ path_exists(dArchive, c.archAccess).exc # ""
         /\ dLast' = DopRun(c, "aborted", new_items)
    /\ dState' = DopLoaded(c)
    /\ dPosts' = << >>
    /\ UNCHANGED <<dPc, dContent>>

\* lines 68-113: new items; each is put in the archive text, posted and remembered
DopFound ==
  \E c \in DopConditions :
    /\ DopStart(c)
    /\ load_state(dStateFile, c.stateAccess).exc = ""
    /\ c.fetch = "ok"
    /\ \E new_items \in {DopNewItems(dPage, Range(DictGet(DopLoaded(c), SeenKey, << >>)))} :
         /\ new_items # << >>
         /\ \E exists \in {path_exists(dArchive, c.archAccess)} :
              /\ exists.exc = ""
              /\ dContent' = ArchiveContent(new_items, dRuns', ~exists.value)
         /\ dPosts' = DopPosts(new_items, c.post)
         /\ dState' = DopRemember(DopLoaded(c), new_items)
         /\ dLast' = DopRun(c, "running", new_items)
         /\ dPc' = "archive"

\* lines 116-120: the archive is rewritten; a failure here ends main
DopArchive ==
  /\ dPc = "archive"
  /\ \E written \in Writes(dCond.archWrite, Len(ArchiveText(dArchive, dContent))) :
       /\ written.lines <= MaxWritten
       /\ \E r \in {write_archive(dArchive, dContent, dCond.archAccess, dCond.archWrite,
                                   written)} :
            /\ dArchive' = r.file
            /\ dPc' = IF r.exc = "" THEN "save" ELSE "idle"
            /\ dLast' = IF r.exc = "" THEN dLast
                        ELSE [dLast EXCEPT !.outcome = "aborted"]
  /\ UNCHANGED <<dStateFile, dPage, dCond, dDisturbed, dState, dContent, dRuns, dPosts,
                 dPrev>>
  /\ UNCHANGED watcherVars

\* line 123
DopSave ==
  /\ dPc = "save"
  /\ \E r \in {save_state(dStateFile, dState, dCond.save)} :
       /\ dStateFile' = r.file
       /\ dLast' = [dLast EXCEPT !.outcome = IF r.exc = "" THEN "saved" ELSE "aborted"]
  /\ dPc' = "idle"
  /\ UNCHANGED <<dArchive, dPage, dCond, dDisturbed, dState, dContent, dRuns, dPosts,
                 dPrev>>
  /\ UNCHANGED watcherVars

\* dop-watcher with gov-watcher never run
InitDop ==
  /\ WatcherInit /\ cfgFile = NoFile /\ scenario = "everyday"
  /\ DopInit /\ dPage # << >>

NextDop ==
  \/ DopPublish
  \/ DopLoadRaises
  \/ DopFetchFails
  \/ DopNothingNew
  \/ DopArchiveStatRaises
  \/ DopFound
  \/ DopArchive
  \/ DopSave

SpecDop == InitDop /\ [][NextDop]_vars

(***************************************************************************)
(* Properties.                                                             *)
(***************************************************************************)
\* the iteration recorded in last is the one the loop has just finished
JustDone == pc = "loop" /\ last.idx = i - 1

\* state.json as load_json reads it when the read succeeds
OnDisk(file) == load_json(file, "ok").value

\* C1: a run against the pages of the previous run, begun from the state that run
\* saved, finds no new item at any site, writes nothing to history.md and posts
\* nothing
SecondRunFindsNothing ==
  (pc = "loop" /\ i > Len(config) /\ prevFetched # << >> /\ fetched = prevFetched)
    => (found = 0 /\ histFile = histAtBegin /\ sent = << >>)

\* the first position of url in items, 0 when it is not there
FirstAt(items, url) ==
  IF \E n \in 1..Len(items) : items[n].link = url
  THEN CHOOSE n \in 1..Len(items) :
         items[n].link = url /\ \A m \in 1..(n - 1) : items[m].link # url
  ELSE 0

\* C2: track_latest reports the items above the first place of the recorded marker,
\* in page order (k of them when the marker is first met at position k, none when it
\* is on top), every visible item when no marker is recorded or the marker is gone,
\* and records the top link as the new marker
TrackLatestRecoversAll ==
  (JustDone /\ last.outcome = "processed" /\ last.strategy = "track_latest") =>
    LET k == FirstAt(last.items, Get(last.before, "last_seen_url", None))
    IN  /\ last.new = IF k = 0 THEN last.items ELSE SubSeq(last.items, 1, k - 1)
        /\ last.after.last_seen_url = last.items[1].link

\* a marker met three places down the page: the two items above it are both new
TrackLatestSeveralNew ==
  /\ JustDone /\ last.outcome = "processed" /\ last.strategy = "track_latest"
  /\ "last_seen_url" \in DOMAIN last.before
  /\ Len(last.new) >= 2
  /\ Len(last.new) < Len(last.items)

\* the visible items whose link is not in seen, a repeated link kept once, in order
Unseen(items, seen) ==
  LET fresh == SelectSeq(items, LAMBDA it : it.link \notin seen)
  IN  IF Cardinality(Range(LinksOf(fresh))) = Len(fresh) THEN fresh
      ELSE LET keep == {n \in 1..Len(fresh) :
                          \A m \in 1..(n - 1) : fresh[m].link # fresh[n].link}
               nth(j) == CHOOSE n \in keep : Cardinality({m \in keep : m < n}) = j - 1
           IN  [j \in 1..Cardinality(keep) |-> fresh[nth(j)]]

\* the last SeenCap entries of list
Newest(list) ==
  [n \in 1..(IF Len(list) > SeenCap THEN SeenCap ELSE Len(list)) |->
     list[n + (IF Len(list) > SeenCap THEN Len(list) - SeenCap ELSE 0)]]

\* C3: the new items of a track_all run are the distinct visible links absent from
\* the loaded seen_urls, each once, in page order, and each is appended to seen_urls
\* (the list kept is the loaded one followed by them, cut to its newest entries)
TrackAllReportsUnseen ==
  (JustDone /\ last.outcome = "processed" /\ last.strategy = "track_all") =>
    LET seen == Get(last.before, "seen_urls", << >>)
    IN  /\ last.new = Unseen(last.items, Range(seen))
        /\ Len(seen) + Len(last.new) <= SeenCap
             => last.after.seen_urls = seen \o LinksOf(last.new)
        /\ DictGet(state, config[last.idx].id, DefaultSiteState) = last.after

\* a page with a link already seen, a new link and the new link repeated
TrackAllMixedPage ==
  /\ JustDone /\ last.outcome = "processed" /\ last.strategy = "track_all"
  /\ last.before.seen_urls # << >>
  /\ last.new # << >>
  /\ \E n \in 1..Len(last.items) : last.items[n].link \in Range(last.before.seen_urls)
  /\ \E n, m \in 1..Len(last.items) :
       n < m /\ last.items[n].link = last.items[m].link /\ last.items[n] = last.new[1]

\* every seen_urls list of a dict
SeenLists(d) == {Get(d[n].v, "seen_urls", << >>) : n \in 1..Len(d)}

\* C4: no seen_urls list that run_watcher persists holds more than 1000 entries, and
\* a run that passes the bound keeps the 1000 most recently added
SeenCapHolds ==
  /\ stateFile.valid => \A l \in SeenLists(OnDisk(stateFile)) : Len(l) <= SeenCap
  /\ (JustDone /\ last.outcome = "processed" /\ last.strategy = "track_all") =>
       last.after.seen_urls
         = Newest(Get(last.before, "seen_urls", << >>) \o LinksOf(last.new))

\* a second run has passed the bound: the list on disk holds SeenCap entries, and
\* the ones the first run had saved are gone from it
SeenCapReached ==
  /\ pc = "idle" /\ ended = "saved" /\ runs = 2
  /\ \E l \in SeenLists(OnDisk(stateFile)) :
       /\ Len(l) = SeenCap
       /\ [host |-> "dop.gov", doc |-> 1, ext |-> pdf] \notin Range(l)
  /\ \E n \in 1..Len(histFile.lines) :
       histFile.lines[n].kind = "item"
       /\ histFile.lines[n].link = [host |-> "dop.gov", doc |-> 1, ext |-> pdf]

\* this step is a call of update_history
HistoryCalled == i' = i + 1 /\ last'.outcome = "processed" /\ last'.new # << >>

\* the lines update_history writes for items, less the timestamp
IsBlockOf(lines, items) ==
  /\ Len(lines) = Len(items) + 2
  /\ lines[1].kind = "h3"
  /\ \A n \in 1..Len(items) :
       lines[n + 1].kind = "item" /\ lines[n + 1].link = items[n].link
  /\ lines[Len(lines)].kind = "rule"

\* C5: after a call of update_history, whatever its read and its write did, the
\* content the archive had before the call is still there, unchanged, as the tail
\* of the file, and what stands before it is the new block (or, when the write
\* failed before a whole line was written, nothing or the beginning of that line)
HistoryPrepends ==
  [][HistoryCalled =>
       LET added == Len(histFile'.lines) - Len(histFile.lines)
       IN  /\ added >= 0
           /\ SubSeq(histFile'.lines, added + 1, Len(histFile'.lines)) = histFile.lines
           /\ \/ added = 0
              \/ added = 1 /\ histFile'.lines[1].kind = "cut"
              \/ IsBlockOf(SubSeq(histFile'.lines, 1, added), last'.new)]_vars

\* the value of the last item of d whose key is written as text
LastWritten(d, text) ==
  d[CHOOSE n \in 1..Len(d) :
      d[n].k.s = text /\ \A m \in (n + 1)..Len(d) : d[m].k.s # text].v

\* l is data as JSON gives it back: every key a string, and of the items whose keys
\* are written alike the value of the last
AsJson(l, data) ==
  /\ \A n \in 1..Len(l) : l[n].k.t = "str" /\ \E m \in 1..Len(data) : data[m].k.s = l[n].k.s
  /\ \A m \in 1..Len(data) :
       /\ DictHas(l, StrKey(data[m].k.s))
       /\ DictGet(l, StrKey(data[m].k.s), None) = LastWritten(data, data[m].k.s)

\* C6 as claimed: at every step of a run state.json reads as before the step or as
\* exactly the data being saved, and after a successful save as exactly that data
SaveIsAtomicAndExact ==
  [][pc # "idle" =>
       /\ OnDisk(stateFile') = OnDisk(stateFile) \/ DictEq(OnDisk(stateFile'), state)
       /\ (pc = "replace" /\ ended' = "saved") => DictEq(OnDisk(stateFile'), state)]_vars

\* C6 amended: the data is read back as JSON represents it, every key as a string;
\* that is exactly the data when all its keys are strings
SaveIsAtomic ==
  [][pc # "idle" =>
       /\ OnDisk(stateFile') = OnDisk(stateFile) \/ AsJson(OnDisk(stateFile'), state)
       /\ (pc = "replace" /\ ended' = "saved") =>
            /\ AsJson(OnDisk(stateFile'), state)
            /\ (\A n \in 1..Len(state) : state[n].k.t = "str")
                 => DictEq(OnDisk(stateFile'), state)]_vars

\* a save failed in json.dump: the temporary file is cut short, state.json still
\* holds the sites the previous run saved
SaveFailedHalfWay ==
  /\ pc = "idle" /\ ended = "save_failed"
  /\ tmpFile.exists /\ ~tmpFile.valid
  /\ stateFile.valid /\ OnDisk(stateFile) # EmptyDict
  /\ ~AsJson(OnDisk(stateFile), state)

\* C7: a site whose fetch or parse fails does not abort the run
FetchAndParseFailuresSwallowed ==
  last.outcome \in {"fetch_failed", "parse_failed"} => ended # "aborted"

\* the links of the items history.md lists
Archived(file) ==
  {file.lines[m].link : m \in {m \in 1..Len(file.lines) : file.lines[m].kind = "item"}}

\* C8: when posts fail, every new item of the site is still posted, the run goes on,
\* and every new item is in history.md already
NotifyFailuresLoseNothing ==
  (last.outcome = "processed" /\ last.new # << >> /\ cond.post # "ok") =>
    /\ ended # "aborted"
    /\ JustDone =>
         /\ Len(sent) = last.sentBefore + Len(last.new)
         /\ \A n \in 1..Len(last.new) :
              sent[last.sentBefore + n].link = last.new[Len(last.new) + 1 - n].link
         /\ Range(LinksOf(last.new)) \subseteq Archived(histFile)

\* C9: load_json returns {} when the file is missing, is no JSON or cannot be read,
\* and never raises
LoadJsonNeverRaises ==
  /\ loaded.result.exc = ""
  /\ (~loaded.exists \/ ~loaded.valid \/ loaded.access # "ok")
       => loaded.result.value = EmptyDict

\* the URLs of the PDF links of a page, one for every anchor, in page order
PdfUrls(page) ==
  LET found_pdf == SelectSeq(page, LAMBDA a : a.href.ext \in {pdf, PDF, Pdf})
  IN  [n \in 1..Len(found_pdf) |->
         [host |-> IF found_pdf[n].href.host = "" THEN BASE_DOMAIN
                   ELSE found_pdf[n].href.host,
          doc |-> found_pdf[n].href.doc, ext |-> found_pdf[n].href.ext]]

\* C10: a run of dop_watch.main that starts from an empty state and ends leaves in
\* the persisted seen_urls every PDF link of the page (oldest first, one entry for
\* every anchor) and has made exactly one post for every entry; the next run, begun
\* from that state against the same page, finds nothing new, posts nothing and
\* leaves state.json and the archive as they were
DopFirstRunThenNothingNew ==
  /\ (dPc = "idle" /\ dLast.seenBefore = << >> /\ dLast.outcome = "saved") =>
       /\ DictGet(load_state(dStateFile, "ok").value, SeenKey, << >>)
            = Reverse(PdfUrls(dLast.page))
       /\ LinksOf(dPosts) = Reverse(PdfUrls(dLast.page))
  /\ (dPc = "idle" /\ dLast.seenBefore = << >> /\ dLast.outcome = "nothing_new") =>
       PdfUrls(dLast.page) = << >>
  /\ (/\ dPc = "idle" /\ dLast.outcome # "none" /\ dLast.access = "ok"
      /\ dPrev.outcome = "saved" /\ dPrev.seenBefore = << >>
      /\ dLast.page = dPrev.page) =>
       /\ dLast.new = << >>
       /\ dPosts = << >>
       /\ dStateFile = dPrev.stateFile
       /\ dArchive = dPrev.archive

\* a first run has recorded a page with a repeated PDF link, the second run has met
\* the same page and found nothing
DopSecondRunDone ==
  /\ dPc = "idle" /\ dLast.outcome = "nothing_new" /\ dLast.access = "ok"
  /\ dPrev.outcome = "saved" /\ dPrev.seenBefore = << >>
  /\ dLast.page = dPrev.page
  /\ Len(dPrev.new) >= 3
  /\ Len(DictGet(load_state(dStateFile, "ok").value, SeenKey, << >>)) = Len(dPrev.new)

\* the outcomes of a loop iteration that skips its site
Skipped(outcome) == outcome \in {"invalid", "fetch_failed", "no_items"}

\* the entry state.json holds for a site, as a list of none or one
EntryOf(d, site) ==
  IF "id" \in DOMAIN site /\ DictHas(d, StrKey(site.id.s))
  THEN <<DictGet(d, StrKey(site.id.s), None)>>
  ELSE << >>

\* C11: an iteration that skips its site (an entry without id, name or url, a failed
\* fetch, a page without items) changes neither the state, nor history.md, nor the
\* posts made; and in the state.json a run saves, the entry of every site the run
\* skipped is the entry the run loaded, absent when it was absent
SkippedSiteLeavesNoTrace ==
  [][/\ (pc = "loop" /\ i' = i + 1 /\ Skipped(last'.outcome)) =>
          (state' = state /\ histFile' = histFile /\ sent' = sent)
     /\ (pc = "replace" /\ ended' = "saved") =>
          \A n \in 1..Len(fetched) :
            Skipped(fetched[n].outcome) =>
              EntryOf(OnDisk(stateFile'), config[n])
                = EntryOf(loaded.result.value, config[n])]_vars

\* a saved run that skipped a site it had an entry for (its fetch failed), a site it
\* had no entry for, and went on to find new items at a later site
SkippedWithEntry ==
  /\ pc = "idle" /\ ended = "saved"
  /\ \E n \in 1..Len(fetched) :
       /\ fetched[n].outcome = "fetch_failed"
       /\ EntryOf(loaded.result.value, config[n]) # << >>
       /\ EntryOf(OnDisk(stateFile), config[n]) = EntryOf(loaded.result.value, config[n])
       /\ \E m \in (n + 1)..Len(fetched) : fetched[m].outcome = "processed"
  /\ \E n \in 1..Len(fetched) :
       /\ Skipped(fetched[n].outcome)
       /\ EntryOf(OnDisk(stateFile), config[n]) = << >>
  /\ found > 0
====
